---- MODULE Spec2Model ----
(***************************************************************************)
(* dark Life bot (dark_life_bot.py): the per-player state machine driven   *)
(* by inline-button callbacks, the SQLite tables behind it and the shared  *)
(* price table.                                                            *)
(*                                                                         *)
(* Numbers: money, vitals, days, levels and XP are Python ints and are     *)
(* modelled as integers.  Times are whole seconds (now_ts() is             *)
(* int(time.time())).  Prices and holdings are Python floats; they are     *)
(* modelled in fixed point (see PriceScale, AmtScale).  Where the code     *)
(* truncates a float product with int(), the operator below reproduces the *)
(* value CPython computes (see FloatShort).                                *)
(***************************************************************************)
EXTENDS Integers, Sequences, FiniteSets, TLC

VARIABLES
    now,              \* wall clock, seconds (time.time() truncated)
    users,            \* the player's row of table users, or NoRow
    user_businesses,  \* table user_businesses of the player: biz_id -> row
    portfolio,        \* table portfolio of the player: asset -> amount
    market,           \* table market: key -> price
    last_update,      \* market_meta 'last_update'
    reply,            \* kind of the text sent back by the last handler
    data,             \* callback data of the last handled update
    dt,               \* seconds between the last update and the one before
    mid,              \* the in-memory st of the last update after apply_decay
    steps,            \* number of updates handled so far
    pc,               \* per in-flight update: position in its coroutine
    loc,              \* per in-flight update: its in-memory st
    base,             \* per in-flight update: its callback data and the row it loaded
    running,          \* the coroutine that holds the event loop, or Idle
    applied,          \* the database had the saved updates run one after the other
    paidLog,          \* <<biz_id, day>> pairs for which income was credited
    paidTwice,        \* some <<biz_id, day>> was credited a second time
    updLog            \* times at which the price table was recomputed

vars == <<now, users, user_businesses, portfolio, market, last_update, reply,
          data, dt, mid, steps, pc, loc, base, running, applied,
          paidLog, paidTwice, updLog>>

----------------------------------------------------------------------------
(* Core caps and rates                                                     *)

MAX_HEALTH == 100
MAX_HUNGER == 100
MAX_ENERGY == 100
HUNGER_DECAY_PER_HOUR == 6
ENERGY_DECAY_PER_HOUR == 4
START_MONEY == 5000

Unemployed == "Bezrabotnyy"

\* name, min_level, base_pay, xp_gain, energy_cost, hunger_cost
JOBS ==
    << [name |-> "Raznorabochiy", min_lvl |-> 1,  base_pay |-> 800,  xp_gain |-> 14, e_cost |-> 18, h_cost |-> 12],
       [name |-> "Kuryer",        min_lvl |-> 2,  base_pay |-> 1100, xp_gain |-> 18, e_cost |-> 22, h_cost |-> 15],
       [name |-> "Barista",       min_lvl |-> 3,  base_pay |-> 1400, xp_gain |-> 22, e_cost |-> 25, h_cost |-> 14],
       [name |-> "Okhrannik",     min_lvl |-> 5,  base_pay |-> 1900, xp_gain |-> 28, e_cost |-> 30, h_cost |-> 16],
       [name |-> "Slesar",        min_lvl |-> 7,  base_pay |-> 2400, xp_gain |-> 34, e_cost |-> 34, h_cost |-> 18],
       [name |-> "Sysadmin",      min_lvl |-> 10, base_pay |-> 3200, xp_gain |-> 44, e_cost |-> 30, h_cost |-> 14],
       [name |-> "Razrabotchik",  min_lvl |-> 15, base_pay |-> 4800, xp_gain |-> 62, e_cost |-> 32, h_cost |-> 12] >>

JobNames == { JOBS[i].name : i \in 1..Len(JOBS) }

\* xp_needed with a step of 90 per level
xp_needed_steep(level) == 60 + level * 90

xp_needed(level) == 60 + level * 45

\* id, name, buy_price, base_daily_income, upgrade_base_cost
BUSINESSES ==
    << [id |-> "coffee",  buy |-> 25000,  inc |-> 900,  upc |-> 6000],
       [id |-> "shop",    buy |-> 45000,  inc |-> 1400, upc |-> 9000],
       [id |-> "carwash", buy |-> 80000,  inc |-> 2400, upc |-> 15000],
       [id |-> "it",      buy |-> 160000, inc |-> 5200, upc |-> 28000],
       [id |-> "club",    buy |-> 260000, inc |-> 8800, upc |-> 45000] >>

BizTableIds == { BUSINESSES[i].id : i \in 1..Len(BUSINESSES) }

ASSETS == << "RUB", "USD", "EUR", "BTC", "ETH", "TON", "USDT" >>

AssetSyms == { ASSETS[i] : i \in 1..Len(ASSETS) }

----------------------------------------------------------------------------
(* Helpers                                                                 *)

Max(a, b) == IF a >= b THEN a ELSE b
Min(a, b) == IF a <= b THEN a ELSE b

clamp(v, lo, hi) == Max(lo, Min(hi, v))

NoRow == [absent |-> TRUE]

EmptyInventory == [food |-> 0, medkit |-> 0, ticket |-> 0]

default_state(t) ==
    [ money     |-> START_MONEY,
      health    |-> 90,
      hunger    |-> 70,
      energy    |-> 80,
      day       |-> 1,
      location  |-> "Vokzal",
      job       |-> Unemployed,
      level     |-> 1,
      xp        |-> 0,
      inventory |-> EmptyInventory,
      last_seen |-> t ]

\* get_user(user_id) or default_state()
LoadUser(row, t) == IF row = NoRow THEN default_state(t) ELSE row

\* DecayIdle with a threshold of 0.1 hours
DecayIdle_tenth(elapsed) == elapsed * 10 < 1 * 3600

\* HoursTimes counting only the seconds past the last whole hour
HoursTimes_wrapped(elapsed, rate) == ((elapsed % 3600) * rate) \div 3600

\* hours < 0.2 with hours = dt / 3600.0: true exactly for dt < 720
DecayIdle(elapsed) == elapsed * 10 < 2 * 3600

\* int(hours * rate) with hours = dt / 3600.0
HoursTimes(elapsed, rate) == (elapsed * rate) \div 3600

\* apply_decay leaving last_seen alone when less than 0.2 hours passed
apply_decay_noRefresh(st, t) ==
    LET elapsed == Max(0, t - st.last_seen)
    IN  IF DecayIdle(elapsed)
          THEN st
          ELSE LET hunger_loss == HoursTimes(elapsed, HUNGER_DECAY_PER_HOUR)
                   energy_loss == HoursTimes(elapsed, ENERGY_DECAY_PER_HOUR)
                   hunger == clamp(st.hunger - hunger_loss, 0, MAX_HUNGER)
                   energy == clamp(st.energy - energy_loss, 0, MAX_ENERGY)
                   hp_loss == (IF hunger <= 10 THEN HoursTimes(elapsed, 3) ELSE 0)
                            + (IF energy <= 10 THEN HoursTimes(elapsed, 2) ELSE 0)
               IN  [st EXCEPT !.hunger = hunger,
                              !.energy = energy,
                              !.health = clamp(st.health - hp_loss, 0, MAX_HEALTH),
                              !.last_seen = t]

\* apply_decay taking health only below 10, not at 10
apply_decay_strict(st, t) ==
    LET elapsed == Max(0, t - st.last_seen)
    IN  IF DecayIdle(elapsed)
          THEN [st EXCEPT !.last_seen = t]
          ELSE LET hunger_loss == HoursTimes(elapsed, HUNGER_DECAY_PER_HOUR)
                   energy_loss == HoursTimes(elapsed, ENERGY_DECAY_PER_HOUR)
                   hunger == clamp(st.hunger - hunger_loss, 0, MAX_HUNGER)
                   energy == clamp(st.energy - energy_loss, 0, MAX_ENERGY)
                   hp_loss == (IF hunger < 10 THEN HoursTimes(elapsed, 3) ELSE 0)
                            + (IF energy < 10 THEN HoursTimes(elapsed, 2) ELSE 0)
               IN  [st EXCEPT !.hunger = hunger,
                              !.energy = energy,
                              !.health = clamp(st.health - hp_loss, 0, MAX_HEALTH),
                              !.last_seen = t]

\* apply_decay(st) at time t; returns the new st
apply_decay(st, t) ==
    LET elapsed == Max(0, t - st.last_seen)
    IN  IF DecayIdle(elapsed)
          THEN [st EXCEPT !.last_seen = t]
          ELSE LET hunger_loss == HoursTimes(elapsed, HUNGER_DECAY_PER_HOUR)
                   energy_loss == HoursTimes(elapsed, ENERGY_DECAY_PER_HOUR)
                   hunger == clamp(st.hunger - hunger_loss, 0, MAX_HUNGER)
                   energy == clamp(st.energy - energy_loss, 0, MAX_ENERGY)
                   hp_loss == (IF hunger <= 10 THEN HoursTimes(elapsed, 3) ELSE 0)
                            + (IF energy <= 10 THEN HoursTimes(elapsed, 2) ELSE 0)
               IN  [st EXCEPT !.hunger = hunger,
                              !.energy = energy,
                              !.health = clamp(st.health - hp_loss, 0, MAX_HEALTH),
                              !.last_seen = t]

----------------------------------------------------------------------------
(* Fixed point for the float columns.  A price is kept in units of         *)
(* 1/PriceScale RUB; a holding of asset a in units of 1/AmtScale(a).       *)
(* AmtScale(a) exceeds the price of a, so one unit of a holding is worth   *)
(* less than 1 RUB, as the rounding error of a binary64 is.                *)

PriceScale == 100

AmtScale(sym) ==
    CASE sym = "BTC" -> 100000000
      [] sym = "ETH" -> 1000000
      [] OTHER       -> 1000

\* a * b = q * c + r, 0 <= r < c, for 0 <= a < c < 2^30, without overflow
RECURSIVE MulDivRem(_, _, _)
MulDivRem(a, b, c) ==
    IF b = 0 THEN [q |-> 0, r |-> 0]
    ELSE LET h  == MulDivRem(a, b \div 2, c)
             q2 == 2 * h.q + (2 * h.r) \div c
             r2 == (2 * h.r) % c
         IN  IF b % 2 = 1
               THEN [q |-> q2 + (r2 + a) \div c, r |-> (r2 + a) % c]
               ELSE [q |-> q2, r |-> r2]

\* floor(a * b / c)
MulDiv(a, b, c) ==
    IF a = 0 \/ b <= 2147483647 \div a
      THEN (a * b) \div c
      ELSE (a \div c) * b + MulDivRem(a % c, b, c).q

DEFAULT_PRICES_RUB ==
    [ USD |-> 9500, EUR |-> 10300, BTC |-> 580000000, ETH |-> 28000000,
      TON |-> 22000, USDT |-> 9500, RUB |-> 100 ]

\* random walk tuning, in 1/1000
CRYPTO_VOL ==
    [ BTC |-> 20, ETH |-> 28, TON |-> 55, USDT |-> 4, USD |-> 10, EUR |-> 12,
      RUB |-> 0 ]

\* int(base * (1 + 0.35 * max(0, lvl - 1))): pairs <<base, lvl>> for which
\* the binary64 product falls just short of the exact integer value
FloatShort ==
    { <<900, 4>>, <<900, 7>>, <<900, 8>>, <<1400, 4>>, <<1400, 7>>,
      <<2400, 7>>, <<5200, 4>>, <<5200, 7>>, <<8800, 7>>, <<8800, 8>> }

biz_info(biz_id) ==
    IF \E i \in 1..Len(BUSINESSES) : BUSINESSES[i].id = biz_id
      THEN LET i == CHOOSE j \in 1..Len(BUSINESSES) : BUSINESSES[j].id = biz_id
           IN  [buy |-> BUSINESSES[i].buy, inc |-> BUSINESSES[i].inc,
                upc |-> BUSINESSES[i].upc]
      ELSE [buy |-> 1000000000, inc |-> 0, upc |-> 1000000000]

biz_income(base_income, lvl) ==
    (base_income * (100 + 35 * Max(0, lvl - 1))) \div 100
      - (IF <<base_income, lvl>> \in FloatShort THEN 1 ELSE 0)

\* int(base_cost * 1.55 ** max(0, lvl - 1)); 1.55 = 31/20
RECURSIVE Pow(_, _)
Pow(b, e) == IF e = 0 THEN 1 ELSE b * Pow(b, e - 1)

\* biz_upgrade_cost without the growth by level
biz_upgrade_cost_flat(base_cost, lvl) == base_cost

biz_upgrade_cost(base_cost, lvl) ==
    LET k == Max(0, lvl - 1)
    IN  MulDiv(base_cost, Pow(31, k), Pow(20, k))

----------------------------------------------------------------------------
(* Market                                                                  *)

\* keys the requests of the model may name; "DOGE" and "bogus" are in no table
Syms == AssetSyms \cup {"DOGE"}
BizKeys == BizTableIds \cup {"bogus"}

\* the seeded table market (init_db)
SeedMarket == [k \in AssetSyms |-> DEFAULT_PRICES_RUB[k]]

\* MarketFresh with an interval of 30 seconds
MarketFresh_short(t, last_ts) == t - last_ts < 30

\* now_ts() - last_ts < 300: the table is reused
MarketFresh(t, last_ts) == t - last_ts < 300

\* Walk with ten times the volatility
Walk_wide(price, vol, sign, lo) == Max(lo, price + sign * MulDiv(price, 10 * vol, 1000))

\* price * (1 + drift), drift = sign * vol, floored at lo
Walk(price, vol, sign, lo) == Max(lo, price + sign * MulDiv(price, vol, 1000))

\* the random walk over ASSETS in table order; dr[sym] in {-1, 0, 1} is the
\* sign of the drift drawn for sym, its size being CRYPTO_VOL[sym]
RECURSIVE WalkFrom(_, _, _)
WalkFrom(i, prices, dr) ==
    IF i > Len(ASSETS) THEN prices
    ELSE LET sym == ASSETS[i]
             p   == IF sym = "RUB" THEN PriceScale
                    ELSE IF sym = "USDT"
                      THEN Walk(prices["USD"], CRYPTO_VOL[sym], dr[sym], PriceScale)
                      ELSE Walk(prices[sym], CRYPTO_VOL[sym], dr[sym], 1)
         IN  WalkFrom(i + 1, [prices EXCEPT ![sym] = p], dr)

\* market_update_if_needed() at time t: [mkt, upd, walked]
market_update_if_needed(mkt, upd, t, dr) ==
    IF MarketFresh(t, upd)
      THEN [mkt |-> mkt, upd |-> upd, walked |-> FALSE]
      ELSE [mkt |-> WalkFrom(1, mkt, dr), upd |-> t, walked |-> TRUE]

get_price(mkt, sym) ==
    IF sym \in DOMAIN mkt THEN mkt[sym]
    ELSE IF sym \in DOMAIN DEFAULT_PRICES_RUB THEN DEFAULT_PRICES_RUB[sym]
    ELSE PriceScale

\* portfolio_get(user_id).get(sym, 0.0)
Holding(port, sym) == IF sym \in DOMAIN port THEN port[sym] ELSE 0

\* portfolio_set(user_id, asset, amount)
portfolio_set(port, sym, amount) ==
    [k \in DOMAIN port \cup {sym} |-> IF k = sym THEN amount ELSE port[k]]

----------------------------------------------------------------------------
(* Businesses                                                              *)

user_biz_get(biz, biz_id) == biz[biz_id]

user_biz_upsert(biz, biz_id, biz_level, last_paid_day) ==
    [biz EXCEPT ![biz_id] = [biz_level |-> biz_level,
                             last_paid_day |-> last_paid_day]]

Owned(biz) == { b \in DOMAIN biz : biz[b] # NoRow }

NoBusinesses == [b \in BizKeys |-> NoRow]

----------------------------------------------------------------------------
(* Actions on the in-memory st                                             *)

do_eat_inv(st) ==
    IF st.inventory.food <= 0
      THEN [st |-> st, msg |-> "no_food"]
      ELSE [st |-> [st EXCEPT !.inventory.food = @ - 1,
                              !.hunger = clamp(st.hunger + 35, 0, MAX_HUNGER),
                              !.energy = clamp(st.energy + 5, 0, MAX_ENERGY)],
            msg |-> "ate_inv"]

CafeCost == 450

\* do_eat_cafe with the meal lasting until the next day
do_eat_cafe_overnight(st) ==
    IF st.money < CafeCost
      THEN [st |-> st, msg |-> "cafe_no_money"]
      ELSE [st |-> [st EXCEPT !.money = @ - CafeCost,
                              !.day = @ + 1,
                              !.hunger = clamp(st.hunger + 40, 0, MAX_HUNGER),
                              !.energy = clamp(st.energy + 8, 0, MAX_ENERGY)],
            msg |-> "cafe"]

do_eat_cafe(st) ==
    IF st.money < CafeCost
      THEN [st |-> st, msg |-> "cafe_no_money"]
      ELSE [st |-> [st EXCEPT !.money = @ - CafeCost,
                              !.hunger = clamp(st.hunger + 40, 0, MAX_HUNGER),
                              !.energy = clamp(st.energy + 8, 0, MAX_ENERGY)],
            msg |-> "cafe"]

RECURSIVE maybe_level_up(_)
maybe_level_up(st) ==
    IF st.xp >= xp_needed(st.level)
      THEN maybe_level_up([st EXCEPT !.xp = @ - xp_needed(st.level),
                                     !.level = @ + 1])
      ELSE st

\* int(max(200, (base_pay + luck) * (1.0 + min(0.35, level * 0.01))))
Earned(base_pay, luck, level) ==
    Max(200, ((base_pay + luck) * (100 + Min(35, level))) \div 100)

\* do_work without the comparison of the level with min_lvl
do_work_unlocked(st, luck) ==
    IF st.job = Unemployed THEN [st |-> st, msg |-> "no_job"]
    ELSE IF st.energy < 20 \/ st.hunger < 15 THEN [st |-> st, msg |-> "too_tired"]
    ELSE IF st.job \notin JobNames
      THEN [st |-> [st EXCEPT !.job = Unemployed], msg |-> "job_lost"]
    ELSE LET job == JOBS[CHOOSE i \in 1..Len(JOBS) : JOBS[i].name = st.job]
         IN  [st |-> maybe_level_up(
                       [st EXCEPT !.money = @ + Earned(job.base_pay, luck, st.level),
                                  !.xp = @ + job.xp_gain,
                                  !.energy = clamp(st.energy - job.e_cost, 0, MAX_ENERGY),
                                  !.hunger = clamp(st.hunger - job.h_cost, 0, MAX_HUNGER)]),
              msg |-> "worked"]

\* do_work without the refusal of a tired or hungry player
do_work_tireless(st, luck) ==
    IF st.job = Unemployed THEN [st |-> st, msg |-> "no_job"]
    ELSE IF st.job \notin JobNames
      THEN [st |-> [st EXCEPT !.job = Unemployed], msg |-> "job_lost"]
    ELSE LET job == JOBS[CHOOSE i \in 1..Len(JOBS) : JOBS[i].name = st.job]
         IN  IF st.level < job.min_lvl THEN [st |-> st, msg |-> "job_locked"]
             ELSE [st |-> maybe_level_up(
                            [st EXCEPT !.money = @ + Earned(job.base_pay, luck, st.level),
                                       !.xp = @ + job.xp_gain,
                                       !.energy = clamp(st.energy - job.e_cost, 0, MAX_ENERGY),
                                       !.hunger = clamp(st.hunger - job.h_cost, 0, MAX_HUNGER)]),
                   msg |-> "worked"]

do_work(st, luck) ==
    IF st.job = Unemployed THEN [st |-> st, msg |-> "no_job"]
    ELSE IF st.energy < 20 \/ st.hunger < 15 THEN [st |-> st, msg |-> "too_tired"]
    ELSE IF st.job \notin JobNames
      THEN [st |-> [st EXCEPT !.job = Unemployed], msg |-> "job_lost"]
    ELSE LET job == JOBS[CHOOSE i \in 1..Len(JOBS) : JOBS[i].name = st.job]
         IN  IF st.level < job.min_lvl THEN [st |-> st, msg |-> "job_locked"]
             ELSE [st |-> maybe_level_up(
                            [st EXCEPT !.money = @ + Earned(job.base_pay, luck, st.level),
                                       !.xp = @ + job.xp_gain,
                                       !.energy = clamp(st.energy - job.e_cost, 0, MAX_ENERGY),
                                       !.hunger = clamp(st.hunger - job.h_cost, 0, MAX_HUNGER)]),
                   msg |-> "worked"]

\* Payable skipping only the businesses paid for a later day
Payable_late(biz, d) == { b \in Owned(biz) : ~(biz[b].last_paid_day > d) }

\* the businesses a sleep into day d pays
Payable(biz, d) == { b \in Owned(biz) : ~(biz[b].last_paid_day >= d) }

RECURSIVE SumIncome(_, _)
SumIncome(biz, bs) ==
    IF bs = {} THEN 0
    ELSE LET b == CHOOSE x \in bs : TRUE
         IN  biz_income(biz_info(b).inc, biz[b].biz_level) + SumIncome(biz, bs \ {b})

do_sleep(st, biz) ==
    LET day    == st.day + 1
        hunger == clamp(st.hunger - 10, 0, MAX_HUNGER)
        st1    == [st EXCEPT !.day = day,
                             !.energy = clamp(st.energy + 55, 0, MAX_ENERGY),
                             !.hunger = hunger,
                             !.health = IF hunger >= 40
                                          THEN clamp(st.health + 6, 0, MAX_HEALTH)
                                          ELSE st.health]
        paid   == Payable(biz, day)
        total  == SumIncome(biz, paid)
        biz1   == [b \in DOMAIN biz |->
                     IF b \in paid
                       THEN [biz_level |-> biz[b].biz_level, last_paid_day |-> day]
                       ELSE biz[b]]
    IN  [st   |-> IF total > 0 THEN [st1 EXCEPT !.money = @ + total] ELSE st1,
         biz  |-> biz1,
         paid |-> paid,
         msg  |-> IF total > 0 THEN "slept_income" ELSE "slept"]

\* do_event with a found wallet that also holds a meal
do_event_withFood(st, ev) ==
    [st |-> CASE ev = 1 -> [st EXCEPT !.money = Max(0, st.money + 600),
                                      !.inventory.food = @ + 1]
              [] ev = 2 -> [st EXCEPT !.money = Max(0, st.money - 200)]
              [] ev = 3 -> [st EXCEPT !.health = clamp(st.health - 10, 0, MAX_HEALTH)]
              [] ev = 4 -> [st EXCEPT !.energy = clamp(st.energy + 10, 0, MAX_ENERGY)]
              [] OTHER  -> [st EXCEPT !.money = Max(0, st.money + 900),
                                      !.energy = clamp(st.energy - 10, 0, MAX_ENERGY)],
     msg |-> "event"]

\* do_event with the fine taken from money without the floor at 0
do_event_unfloored(st, ev) ==
    [st |-> CASE ev = 1 -> [st EXCEPT !.money = st.money + 600]
              [] ev = 2 -> [st EXCEPT !.money = st.money - 200]
              [] ev = 3 -> [st EXCEPT !.health = clamp(st.health - 10, 0, MAX_HEALTH)]
              [] ev = 4 -> [st EXCEPT !.energy = clamp(st.energy + 10, 0, MAX_ENERGY)]
              [] OTHER  -> [st EXCEPT !.money = st.money + 900,
                                      !.energy = clamp(st.energy - 10, 0, MAX_ENERGY)],
     msg |-> "event"]

\* events[ev], ev in 1..5
do_event(st, ev) ==
    [st |-> CASE ev = 1 -> [st EXCEPT !.money = Max(0, st.money + 600)]
              [] ev = 2 -> [st EXCEPT !.money = Max(0, st.money - 200)]
              [] ev = 3 -> [st EXCEPT !.health = clamp(st.health - 10, 0, MAX_HEALTH)]
              [] ev = 4 -> [st EXCEPT !.energy = clamp(st.energy + 10, 0, MAX_ENERGY)]
              [] OTHER  -> [st EXCEPT !.money = Max(0, st.money + 900),
                                      !.energy = clamp(st.energy - 10, 0, MAX_ENERGY)],
     msg |-> "event"]

\* biz_buy selling a business to its owner once more
biz_buy_again(st, biz, biz_id) ==
    IF st.money < biz_info(biz_id).buy
      THEN [st |-> st, biz |-> biz, msg |-> "biz_no_money"]
    ELSE [st  |-> [st EXCEPT !.money = @ - biz_info(biz_id).buy],
          biz |-> user_biz_upsert(biz, biz_id, 1, st.day),
          msg |-> "biz_bought"]

biz_buy(st, biz, biz_id) ==
    IF user_biz_get(biz, biz_id) # NoRow
      THEN [st |-> st, biz |-> biz, msg |-> "biz_owned"]
    ELSE IF st.money < biz_info(biz_id).buy
      THEN [st |-> st, biz |-> biz, msg |-> "biz_no_money"]
    ELSE [st  |-> [st EXCEPT !.money = @ - biz_info(biz_id).buy],
          biz |-> user_biz_upsert(biz, biz_id, 1, st.day),
          msg |-> "biz_bought"]

biz_upgrade(st, biz, biz_id) ==
    LET r == user_biz_get(biz, biz_id)
    IN  IF r = NoRow THEN [st |-> st, biz |-> biz, msg |-> "biz_not_owned"]
        ELSE LET cost == biz_upgrade_cost(biz_info(biz_id).upc, r.biz_level + 1)
             IN  IF st.money < cost
                   THEN [st |-> st, biz |-> biz, msg |-> "up_no_money"]
                   ELSE [st  |-> [st EXCEPT !.money = @ - cost],
                         biz |-> user_biz_upsert(biz, biz_id, r.biz_level + 1,
                                                 r.last_paid_day),
                         msg |-> "biz_upgraded"]

\* crypto_buy after market_update_if_needed: units = rub_amount / price
crypto_buy(st, port, mkt, sym, rub_amount) ==
    IF rub_amount <= 0 THEN [st |-> st, port |-> port, msg |-> "bad_amount"]
    ELSE IF st.money < rub_amount
      THEN [st |-> st, port |-> port, msg |-> "buy_no_money"]
    ELSE LET units == MulDiv(rub_amount * PriceScale, AmtScale(sym),
                             get_price(mkt, sym))
         IN  [st   |-> [st EXCEPT !.money = @ - rub_amount],
              port |-> portfolio_set(port, sym, Holding(port, sym) + units),
              msg  |-> "bought"]

\* crypto_sell keeping a commission of one percent
crypto_sell_fee(st, port, mkt, sym, tenths) ==
    LET fraction   == Max(0, Min(10, tenths))
        have       == Holding(port, sym)
        sell_units == (have * fraction) \div 10
        rub        == ((MulDiv(sell_units, get_price(mkt, sym), AmtScale(sym))
                        \div PriceScale) * 99) \div 100
    IN  IF have <= 0 THEN [st |-> st, port |-> port, msg |-> "no_asset"]
        ELSE IF sell_units <= 0
          THEN [st |-> st, port |-> port, msg |-> "nothing_to_sell"]
        ELSE [st   |-> [st EXCEPT !.money = @ + rub],
              port |-> portfolio_set(port, sym, have - sell_units),
              msg  |-> "sold"]

\* crypto_sell after market_update_if_needed; tenths = 10 * fraction
crypto_sell(st, port, mkt, sym, tenths) ==
    LET fraction   == Max(0, Min(10, tenths))
        have       == Holding(port, sym)
        sell_units == (have * fraction) \div 10
        rub        == MulDiv(sell_units, get_price(mkt, sym), AmtScale(sym))
                        \div PriceScale
    IN  IF have <= 0 THEN [st |-> st, port |-> port, msg |-> "no_asset"]
        ELSE IF sell_units <= 0
          THEN [st |-> st, port |-> port, msg |-> "nothing_to_sell"]
        ELSE [st   |-> [st EXCEPT !.money = @ + rub],
              port |-> portfolio_set(port, sym, have - sell_units),
              msg  |-> "sold"]

----------------------------------------------------------------------------
(* on_btn                                                                  *)

\* callback data that only redraw a menu
NavCmds == { "noop", "back", "status", "inv", "eat_menu", "work_menu",
             "biz_menu", "biz_shop", "biz_my", "biz_view", "crypto_menu",
             "crypto_buy_menu", "crypto_sell_menu", "crypto_buy",
             "crypto_sell" }

\* the if/elif chain of on_btn on a living player's st.  rq: the callback
\* data (cmd, arg, amt) and the draws of this update (luck, ev, dr)
Dispatch(st, biz, port, mkt, upd, rq, t) ==
    LET same == [st |-> st, biz |-> biz, port |-> port, mkt |-> mkt,
                 upd |-> upd, paid |-> {}, walked |-> FALSE, msg |-> "menu"]
    IN  CASE rq.cmd \in NavCmds -> same
          [] rq.cmd = "eat_inv" ->
               LET r == do_eat_inv(st) IN [same EXCEPT !.st = r.st, !.msg = r.msg]
          [] rq.cmd = "eat_cafe" ->
               LET r == do_eat_cafe(st) IN [same EXCEPT !.st = r.st, !.msg = r.msg]
          [] rq.cmd = "job_set" ->
               [same EXCEPT !.st = [st EXCEPT !.job = rq.arg], !.msg = "job_set"]
          [] rq.cmd = "work_do" ->
               LET r == do_work(st, rq.luck) IN [same EXCEPT !.st = r.st, !.msg = r.msg]
          [] rq.cmd = "biz_buy" ->
               LET r == biz_buy(st, biz, rq.arg)
               IN  [same EXCEPT !.st = r.st, !.biz = r.biz, !.msg = r.msg]
          [] rq.cmd = "biz_up" ->
               LET r == biz_upgrade(st, biz, rq.arg)
               IN  [same EXCEPT !.st = r.st, !.biz = r.biz, !.msg = r.msg]
          [] rq.cmd \in {"crypto_market", "crypto_port"} ->
               LET m == market_update_if_needed(mkt, upd, t, rq.dr)
               IN  [same EXCEPT !.mkt = m.mkt, !.upd = m.upd, !.walked = m.walked,
                                !.msg = "prices"]
          [] rq.cmd = "crypto_buy_do" ->
               LET m == market_update_if_needed(mkt, upd, t, rq.dr)
                   r == crypto_buy(st, port, m.mkt, rq.arg, rq.amt)
               IN  [same EXCEPT !.mkt = m.mkt, !.upd = m.upd, !.walked = m.walked,
                                !.st = r.st, !.port = r.port, !.msg = r.msg]
          [] rq.cmd = "crypto_sell_do" ->
               LET m == market_update_if_needed(mkt, upd, t, rq.dr)
                   r == crypto_sell(st, port, m.mkt, rq.arg, rq.amt)
               IN  [same EXCEPT !.mkt = m.mkt, !.upd = m.upd, !.walked = m.walked,
                                !.st = r.st, !.port = r.port, !.msg = r.msg]
          [] rq.cmd = "sleep" ->
               LET r == do_sleep(st, biz)
               IN  [same EXCEPT !.st = r.st, !.biz = r.biz, !.paid = r.paid,
                                !.msg = r.msg]
          [] rq.cmd = "event" ->
               LET r == do_event(st, rq.ev) IN [same EXCEPT !.st = r.st, !.msg = r.msg]
          [] OTHER -> [same EXCEPT !.msg = "unknown_button"]

\* on_btn from get_user to save_user, at time t: the tables and the reply
on_btn(row, biz, port, mkt, upd, rq, t) ==
    LET st == apply_decay(LoadUser(row, t), t)
    IN  IF st.health <= 0
          THEN [st |-> st, biz |-> biz, port |-> port, mkt |-> mkt, upd |-> upd,
                paid |-> {}, walked |-> FALSE, msg |-> "dead", mid |-> st]
          ELSE LET r == Dispatch(st, biz, port, mkt, upd, rq, t)
               IN  [st |-> r.st, biz |-> r.biz, port |-> r.port, mkt |-> r.mkt,
                    upd |-> r.upd, paid |-> r.paid, walked |-> r.walked,
                    msg |-> r.msg, mid |-> st]

----------------------------------------------------------------------------
(* The database and one update handled from start to end                   *)

\* the tables after init_db() at time 0, with the history kept beside them
FreshDb ==
    [ users |-> NoRow, biz |-> NoBusinesses, port |-> << >>,
      mkt |-> SeedMarket, upd |-> 0,
      log |-> {}, twice |-> FALSE, walks |-> << >> ]

NoDraw == [luck |-> 0, ev |-> 1, dr |-> [k \in AssetSyms |-> 0]]

Rq(cmd, arg, amt, luck, ev, dr) ==
    [cmd |-> cmd, arg |-> arg, amt |-> amt, luck |-> luck, ev |-> ev, dr |-> dr]

Button(cmd, arg, amt) == Rq(cmd, arg, amt, 0, 1, NoDraw.dr)

\* the database after on_btn handled rq at time t, with the reply and the
\* st on_btn held after apply_decay
ApplyBtn(db, rq, t) ==
    LET F(r) ==
          LET days == { <<b, r.st.day>> : b \in r.paid }
          IN  [ users |-> r.st, biz |-> r.biz, port |-> r.port, mkt |-> r.mkt,
                upd |-> r.upd,
                log |-> db.log \cup days,
                twice |-> db.twice \/ (days \cap db.log # {}),
                walks |-> IF r.walked THEN Append(db.walks, t) ELSE db.walks,
                msg |-> r.msg, mid |-> r.mid ]
    IN  F(on_btn(db.users, db.biz, db.port, db.mkt, db.upd, rq, t))

StripReply(r) ==
    [ users |-> r.users, biz |-> r.biz, port |-> r.port, mkt |-> r.mkt,
      upd |-> r.upd, log |-> r.log, twice |-> r.twice, walks |-> r.walks ]

\* the database after cmd_start at time t: save_user(user_id, default_state())
ApplyStart(db, t) == [db EXCEPT !.users = default_state(t)]

\* the database after the button presses rqs, all at time t
RECURSIVE Replay(_, _, _)
Replay(db, rqs, t) ==
    IF rqs = << >> THEN db
    ELSE Replay(StripReply(ApplyBtn(db, Head(rqs), t)), Tail(rqs), t)

RECURSIVE Rep(_, _)
Rep(rq, n) == IF n = 0 THEN << >> ELSE <<rq>> \o Rep(rq, n - 1)

\* databases the bot reaches from FreshDb within its first second:
\*   Weak   eight "fell" events: health 10
\*   Rich   120 "found a wallet" events, each money + 600: money 77000
\*   Owner  Rich, then coffee bought and upgraded twice
\*   Paid   Rich, then coffee bought and one sleep (day 2 paid)
\*   Broke  purchases of USD for 2000, 2000, 500 and 500: money 0
\*   Tired  the first job chosen and worked four times (luck 0, 808 per
\*          shift): energy 8, hunger 22, XP 56
\*   Skilled  Tired, then sleep, cafe, three more shifts, sleep, cafe:
\*            day 3, energy 80, hunger 46, XP 98 at level 1, one shift
\*            short of level 2
Ev(n) == Rq("event", "", 0, 0, n, NoDraw.dr)
Weak   == Replay(FreshDb, Rep(Ev(3), 8), 0)
Rich   == [FreshDb EXCEPT !.users = [default_state(0) EXCEPT !.money = @ + 120 * 600]]
Owner  == Replay(Rich, << Button("biz_buy", "coffee", 0), Button("biz_up", "coffee", 0),
                          Button("biz_up", "coffee", 0) >>, 0)
Paid   == Replay(Rich, << Button("biz_buy", "coffee", 0), Button("sleep", "", 0) >>, 0)
Broke  == Replay(FreshDb, << Button("crypto_buy_do", "USD", 2000),
                             Button("crypto_buy_do", "USD", 2000),
                             Button("crypto_buy_do", "USD", 500),
                             Button("crypto_buy_do", "USD", 500) >>, 0)

Tired  == [FreshDb EXCEPT !.users =
              [default_state(0) EXCEPT !.job = "Raznorabochiy", !.money = @ + 4 * 808,
                                       !.xp = 4 * 14, !.energy = 8, !.hunger = 22]]
Skilled == [FreshDb EXCEPT !.users =
              [default_state(0) EXCEPT !.job = "Raznorabochiy",
                                       !.money = @ + 7 * 808 - 2 * CafeCost,
                                       !.xp = 7 * 14, !.energy = 80, !.hunger = 46,
                                       !.day = 3]]

Seeds == { FreshDb, Weak, Rich, Owner, Paid, Broke, Tired, Skilled }

----------------------------------------------------------------------------
(* Inputs of the model                                                     *)

MaxSteps == 2

\* seconds between two updates
DtSet == { 60, 72000 }

NavInputs  == { "status", "what" }
JobInputs  == { "Raznorabochiy", "Kuryer", "Pilot" }
LuckInputs == { -200, 350 }
BizInputs  == { "coffee", "shop", "bogus" }
SymInputs  == { "USD", "DOGE" }
RubInputs  == { 500, 10000 }
TenthsInputs == { 5, 10 }
EvInputs   == 1..5
DriftInputs ==
    { [k \in AssetSyms |-> -1],
      [k \in AssetSyms |-> IF k = "USDT" THEN -1 ELSE 1] }

\* random.uniform is drawn only when the table is recomputed
Drifts(t) == IF MarketFresh(t, last_update) THEN { NoDraw.dr } ELSE DriftInputs

NoCoroutines == << >>

Db == [ users |-> users, biz |-> user_businesses, port |-> portfolio,
        mkt |-> market, upd |-> last_update,
        log |-> paidLog, twice |-> paidTwice, walks |-> updLog ]

SetDb(db) ==
    /\ users' = db.users
    /\ user_businesses' = db.biz
    /\ portfolio' = db.port
    /\ market' = db.mkt
    /\ last_update' = db.upd
    /\ paidLog' = db.log
    /\ paidTwice' = db.twice
    /\ updLog' = db.walks

Idle == 0

Init ==
    /\ now = 0
    /\ \E db \in Seeds :
          /\ users = db.users
          /\ user_businesses = db.biz
          /\ portfolio = db.port
          /\ market = db.mkt
          /\ last_update = db.upd
          /\ paidLog = db.log
          /\ paidTwice = db.twice
          /\ updLog = db.walks
    /\ reply = "none"
    /\ data = [cmd |-> "none", arg |-> "", amt |-> 0]
    /\ dt = 0
    /\ mid = NoRow
    /\ steps = 0
    /\ pc = NoCoroutines
    /\ loc = NoCoroutines
    /\ base = NoCoroutines
    /\ running = Idle
    /\ applied = NoRow

\* the update rq arrives d seconds after the previous one and on_btn handles it
Btn(rq, d) ==
    /\ steps < MaxSteps
    /\ steps' = steps + 1
    /\ now' = now + d
    /\ dt' = d
    /\ data' = [cmd |-> rq.cmd, arg |-> rq.arg, amt |-> rq.amt]
    /\ \E r \in { ApplyBtn(Db, rq, now + d) } :
           /\ SetDb(r)
           /\ reply' = r.msg
           /\ mid' = r.mid
    /\ UNCHANGED <<pc, loc, base, running, applied>>

\* /start arrives d seconds after the previous update
Start ==
    \E d \in DtSet :
        /\ steps < MaxSteps
        /\ steps' = steps + 1
        /\ now' = now + d
        /\ dt' = d
        /\ data' = [cmd |-> "start", arg |-> "", amt |-> 0]
        /\ SetDb(ApplyStart(Db, now + d))
        /\ reply' = "welcome"
        /\ mid' = default_state(now + d)
        /\ UNCHANGED <<pc, loc, base, running, applied>>

Navigate == \E d \in DtSet, c \in NavInputs : Btn(Button(c, "coffee", 0), d)
EatInv   == \E d \in DtSet : Btn(Button("eat_inv", "", 0), d)
EatCafe  == \E d \in DtSet : Btn(Button("eat_cafe", "", 0), d)
JobSet   == \E d \in DtSet, j \in JobInputs : Btn(Button("job_set", j, 0), d)
WorkDo   == \E d \in DtSet, l \in LuckInputs :
                Btn(Rq("work_do", "", 0, l, 1, NoDraw.dr), d)
BizBuy   == \E d \in DtSet, b \in BizInputs : Btn(Button("biz_buy", b, 0), d)
BizUp    == \E d \in DtSet, b \in BizInputs : Btn(Button("biz_up", b, 0), d)
CryptoView == \E d \in DtSet : \E dr \in Drifts(now + d) :
                Btn(Rq("crypto_market", "", 0, 0, 1, dr), d)
CryptoBuy == \E d \in DtSet, s \in SymInputs, a \in RubInputs : \E dr \in Drifts(now + d) :
                Btn(Rq("crypto_buy_do", s, a, 0, 1, dr), d)
CryptoSell == \E d \in DtSet, s \in SymInputs, f \in TenthsInputs : \E dr \in Drifts(now + d) :
                Btn(Rq("crypto_sell_do", s, f, 0, 1, dr), d)
Sleep    == \E d \in DtSet : Btn(Button("sleep", "", 0), d)
Event    == \E d \in DtSet, e \in EvInputs : Btn(Rq("event", "", 0, 0, e, NoDraw.dr), d)

Next ==
    \/ Start
    \/ Navigate
    \/ EatInv
    \/ EatCafe
    \/ JobSet
    \/ WorkDo
    \/ BizBuy
    \/ BizUp
    \/ CryptoView
    \/ CryptoBuy
    \/ CryptoSell
    \/ Sleep
    \/ Event

Spec == Init /\ [][Next]_vars

----------------------------------------------------------------------------
(* Properties of the sequential specification                              *)

Handled == data.cmd # "none"
Pressed == Handled /\ data.cmd # "start"

\* C1: after any sequence of button presses and resets the stored player has
\* health, hunger and energy within [0,100], money >= 0 and every holding of
\* the portfolio >= 0.
C1_Bounded ==
    /\ users # NoRow =>
         /\ users.health \in 0..MAX_HEALTH
         /\ users.hunger \in 0..MAX_HUNGER
         /\ users.energy \in 0..MAX_ENERGY
         /\ users.money >= 0
    /\ \A a \in DOMAIN portfolio : portfolio[a] >= 0

\* a fine was taken from a player without money, who holds an asset
C1_Witness ==
    /\ data.cmd = "event" /\ reply = "event"
    /\ users.money = 0
    /\ \E a \in DOMAIN portfolio : portfolio[a] > 0

\* the columns of a users row other than last_seen
SameRecord(a, b) ==
    /\ a.money = b.money /\ a.health = b.health /\ a.hunger = b.hunger
    /\ a.energy = b.energy /\ a.day = b.day /\ a.job = b.job
    /\ a.level = b.level /\ a.xp = b.xp /\ a.inventory = b.inventory

\* C4: once health is 0, every press other than /start is answered with the
\* death notice and changes nothing of the record, the businesses or the
\* portfolio; the player stays dead.
C4_DeadFrozen ==
    [][ (users # NoRow /\ users.health = 0 /\ data'.cmd # "start" /\ steps' # steps)
          => /\ reply' = "dead"
             /\ SameRecord(users, users')
             /\ user_businesses' = user_businesses
             /\ portfolio' = portfolio ]_vars

\* C5: an action that itself brings health to 0 is answered with the death
\* notice.
C5_DeathOverrides ==
    (Pressed /\ users.health = 0) => reply = "dead"

\* C6: no <<business, day>> is paid twice; a sleep into day d pays exactly
\* the owned businesses whose last-paid day is less than d, credits their
\* incomes and sets their last-paid day to d.
C6_SleepRule ==
    (data'.cmd = "sleep" /\ reply' # "dead" /\ steps' # steps) =>
        LET d    == users'.day
            pays == { b \in Owned(user_businesses) :
                        user_businesses[b].last_paid_day < d }
        IN  /\ d = mid'.day + 1
            /\ users'.money = mid'.money + SumIncome(user_businesses, pays)
            /\ paidLog' = paidLog \cup { <<b, d>> : b \in pays }
            /\ \A b \in DOMAIN user_businesses :
                 user_businesses'[b] =
                   IF b \in pays
                     THEN [user_businesses[b] EXCEPT !.last_paid_day = d]
                     ELSE user_businesses[b]

C6_OncePerDay == [](~paidTwice) /\ [][C6_SleepRule]_vars

\* a sleep skipped a business that had been paid for that day before
C6_Witness ==
    /\ data.cmd = "sleep" /\ reply = "slept"
    /\ \E b \in Owned(user_businesses) :
          /\ user_businesses[b].last_paid_day >= users.day
          /\ <<b, users.day>> \in paidLog

\* floor(base_income * (1 + 0.35 * (level - 1))) in exact arithmetic
ExactIncome(biz, b) ==
    (biz_info(b).inc * (100 + 35 * (biz[b].biz_level - 1))) \div 100

RECURSIVE SumExact(_, _)
SumExact(biz, bs) ==
    IF bs = {} THEN 0
    ELSE LET b == CHOOSE x \in bs : TRUE
         IN  ExactIncome(biz, b) + SumExact(biz, bs \ {b})

\* C7: a purchase on day d records level 1 and last-paid day d and debits
\* the price only; the sleep into day d + 1 credits the business's income
\* floor(base_income * (1 + 0.35 * (level - 1))).
C7_BuyThenSleep ==
    [][ /\ (data'.cmd = "biz_buy" /\ reply' = "biz_bought" /\ steps' # steps) =>
            /\ user_businesses'[data'.arg] =
                 [biz_level |-> 1, last_paid_day |-> users'.day]
            /\ users'.money = mid'.money - biz_info(data'.arg).buy
        /\ (data'.cmd = "sleep" /\ reply' # "dead" /\ steps' # steps) =>
            LET due == { b \in Owned(user_businesses) :
                           user_businesses[b].last_paid_day = users'.day - 1 }
                rest == { b \in Owned(user_businesses) :
                           user_businesses[b].last_paid_day < users'.day - 1 }
            IN  users'.money = mid'.money + SumExact(user_businesses, due)
                                 + SumIncome(user_businesses, rest) ]_vars

----------------------------------------------------------------------------
(* Decay: status presses at finer intervals, from players of any vitals    *)

DecayDts == { 0, 700, 719, 720, 1800, 3600, 40000 }

HungerInputs == { 0, 5, 10, 11, 12, 16, 50, 100 }
EnergyInputs == { 0, 10, 11, 14, 50, 100 }
HealthInputs == { 0, 1, 5, 50, 100 }

InitDecay ==
    /\ now = 0
    /\ \E h \in HungerInputs, e \in EnergyInputs, hp \in HealthInputs :
          users = [default_state(0) EXCEPT !.hunger = h, !.energy = e, !.health = hp]
    /\ user_businesses = NoBusinesses
    /\ portfolio = << >>
    /\ market = SeedMarket
    /\ last_update = 0
    /\ paidLog = {}
    /\ paidTwice = FALSE
    /\ updLog = << >>
    /\ reply = "none"
    /\ data = [cmd |-> "none", arg |-> "", amt |-> 0]
    /\ dt = 0
    /\ mid = NoRow
    /\ steps = 0
    /\ pc = NoCoroutines
    /\ loc = NoCoroutines
    /\ base = NoCoroutines
    /\ running = Idle
    /\ applied = NoRow

Poll == \E d \in DecayDts : Btn(Button("status", "", 0), d)

NextDecay == Poll

SpecDecay == InitDecay /\ [][NextDecay]_vars

SameVitals(a, b) ==
    a.hunger = b.hunger /\ a.energy = b.energy /\ a.health = b.health

\* C9: a press less than 720 seconds after the previous one leaves hunger,
\* energy and health as stored and sets last_seen to the time of the press.
C9_NoDecayTwice ==
    [][ (steps' # steps /\ dt' < 720) =>
          /\ SameVitals(mid', users)
          /\ mid'.last_seen = now'
          /\ users'.last_seen = now' ]_vars

\* two presses, the second 700 to 719 seconds after the first, on a player
\* with hunger to lose
C9_Witness ==
    /\ steps = 2 /\ dt >= 700 /\ dt < 720
    /\ users.hunger > 0 /\ users.health > 0
    /\ users.last_seen = now

\* st after a decay of d seconds
Decayed(st, d) == apply_decay(st, st.last_seen + d)

\* C10: for elapsed times t1 < t2 the vitals after a decay of t2 are at most
\* those after a decay of t1, and no decay raises a vital.
C10_Monotone ==
    \A t1 \in DecayDts, t2 \in DecayDts :
        LET a == Decayed(users, t1)
            b == Decayed(users, t2)
        IN  /\ (t1 < t2 =>
                  /\ b.hunger <= a.hunger
                  /\ b.energy <= a.energy
                  /\ b.health <= a.health)
            /\ a.hunger <= users.hunger
            /\ a.energy <= users.energy
            /\ a.health <= users.health

\* a player for whom a longer absence costs strictly more of every vital
C10_Witness ==
    /\ steps > 0
    /\ \E t1 \in DecayDts, t2 \in DecayDts :
          /\ 720 <= t1 /\ t1 < t2
          /\ Decayed(users, t2).hunger < Decayed(users, t1).hunger
          /\ Decayed(users, t2).energy < Decayed(users, t1).energy
          /\ Decayed(users, t2).health < Decayed(users, t1).health
          /\ Decayed(users, t1).health < users.health

----------------------------------------------------------------------------
(* Updates in flight at the same time.  The handlers are coroutines of one *)
(* asyncio event loop: a coroutine runs until its next await, and only     *)
(* there may another one run.  on_btn awaits q.answer() before get_user    *)
(* and q.edit_message_text() after save_user; cmd_start awaits             *)
(* reply_text() after save_user.                                           *)

MaxInFlight == 2

Updates == 1..MaxInFlight

\* the positions of a handler at which it is suspended in an await
Yields_afterLoad(p) == p \in { "answering", "loaded", "replying" }

Yields(p) == p \in { "answering", "replying" }

ConcInputs ==
    { Button("eat_cafe", "", 0), Button("sleep", "", 0),
      Button("biz_buy", "coffee", 0), Rq("event", "", 0, 0, 2, NoDraw.dr),
      Button("crypto_buy_do", "USD", 500) }

InCritical(p) == p \in { "loaded", "acted" }

InitConc ==
    /\ now \in DtSet
    /\ \E db \in { FreshDb, Rich } :
          /\ users = db.users
          /\ user_businesses = db.biz
          /\ portfolio = db.port
          /\ market = db.mkt
          /\ last_update = db.upd
          /\ applied = db
    /\ paidLog = {}
    /\ paidTwice = FALSE
    /\ updLog = << >>
    /\ reply = "none"
    /\ data = [cmd |-> "none", arg |-> "", amt |-> 0]
    /\ dt = 0
    /\ mid = NoRow
    /\ steps = 0
    /\ pc = [u \in Updates |-> "new"]
    /\ loc = [u \in Updates |-> NoRow]
    /\ base = [u \in Updates |-> [rq |-> NoDraw, row |-> NoRow, overlap |-> FALSE]]
    /\ running = Idle

\* u may run: the loop is free, or u holds it
MayRun(u) == running \in { Idle, u }

Goto(u, p) ==
    /\ pc' = [pc EXCEPT ![u] = p]
    /\ running' = IF Yields(p) THEN Idle ELSE u

Others(u) == \E v \in Updates \ {u} : pc[v] \notin { "new", "done" }

ConcFrame == UNCHANGED <<now, paidLog, paidTwice, updLog, reply, data, dt, mid, steps>>

\* on_btn from its entry to await q.answer()
BtnBegin(u) ==
    /\ pc[u] = "new" /\ MayRun(u)
    /\ \E rq \in ConcInputs :
          base' = [base EXCEPT ![u] = [rq |-> rq, row |-> NoRow, overlap |-> Others(u)]]
    /\ Goto(u, "answering")
    /\ UNCHANGED <<users, user_businesses, portfolio, market, last_update, loc, applied>>
    /\ ConcFrame

\* cmd_start from its entry to await reply_text(): save_user(default_state())
StartBegin(u) ==
    /\ pc[u] = "new" /\ MayRun(u)
    /\ base' = [base EXCEPT ![u] = [rq |-> Button("start", "", 0), row |-> NoRow,
                                    overlap |-> Others(u)]]
    /\ users' = default_state(now)
    /\ applied' = ApplyStart(applied, now)
    /\ Goto(u, "replying")
    /\ UNCHANGED <<user_businesses, portfolio, market, last_update, loc>>
    /\ ConcFrame

\* st = get_user(user_id) or default_state()
Load(u) ==
    /\ pc[u] = "answering" /\ MayRun(u)
    /\ loc' = [loc EXCEPT ![u] = LoadUser(users, now)]
    /\ base' = [base EXCEPT ![u].row = users]
    /\ Goto(u, "loaded")
    /\ UNCHANGED <<users, user_businesses, portfolio, market, last_update, applied>>
    /\ ConcFrame

\* apply_decay(st) and the dispatch on data; the business, portfolio and
\* market tables are written here
Act(u) ==
    /\ pc[u] = "loaded" /\ MayRun(u)
    /\ \E st \in { apply_decay(loc[u], now) } :
          IF st.health <= 0
            THEN /\ loc' = [loc EXCEPT ![u] = st]
                 /\ UNCHANGED <<user_businesses, portfolio, market, last_update>>
            ELSE \E r \in { Dispatch(st, user_businesses, portfolio, market,
                                     last_update, base[u].rq, now) } :
                    /\ loc' = [loc EXCEPT ![u] = r.st]
                    /\ user_businesses' = r.biz
                    /\ portfolio' = r.port
                    /\ market' = r.mkt
                    /\ last_update' = r.upd
    /\ Goto(u, "acted")
    /\ UNCHANGED <<users, base, applied>>
    /\ ConcFrame

\* save_user(user_id, st), up to await q.edit_message_text()
Save(u) ==
    /\ pc[u] = "acted" /\ MayRun(u)
    /\ users' = loc[u]
    /\ applied' = StripReply(ApplyBtn(applied, base[u].rq, now))
    /\ Goto(u, "replying")
    /\ UNCHANGED <<user_businesses, portfolio, market, last_update, loc, base>>
    /\ ConcFrame

\* the reply is sent and the handler returns
Reply(u) ==
    /\ pc[u] = "replying" /\ MayRun(u)
    /\ pc' = [pc EXCEPT ![u] = "done"]
    /\ running' = Idle
    /\ UNCHANGED <<users, user_businesses, portfolio, market, last_update, loc,
                   base, applied>>
    /\ ConcFrame

NextConc ==
    \E u \in Updates :
        \/ BtnBegin(u)
        \/ StartBegin(u)
        \/ Load(u)
        \/ Act(u)
        \/ Save(u)
        \/ Reply(u)

SpecConc == InitConc /\ [][NextConc]_vars

\* C2: no update reads or writes the player's row between another update's
\* get_user and save_user, and whenever no update is between the two the
\* tables are those the saved updates produce run one after the other.
C2_Serial ==
    /\ \A u \in Updates :
          InCritical(pc[u]) =>
              /\ users = base[u].row
              /\ \A v \in Updates \ {u} : ~InCritical(pc[v])
    /\ (\A u \in Updates : ~InCritical(pc[u])) =>
          /\ users = applied.users
          /\ user_businesses = applied.biz
          /\ portfolio = applied.port

\* two cafe meals ordered while the other update was in flight, both paid
C2_Witness ==
    /\ \A u \in Updates : pc[u] = "done"
    /\ \E u \in Updates, v \in Updates :
          /\ u # v
          /\ base[u].overlap
          /\ base[u].rq.cmd = "eat_cafe" /\ base[v].rq.cmd = "eat_cafe"
    /\ \E db \in { FreshDb, Rich } :
          users.money = LoadUser(db.users, 0).money - 2 * CafeCost

----------------------------------------------------------------------------
(* save_user raising.  on_btn has no try/except around save_user: the      *)
(* exception leaves on_btn before the row is written and the reply sent,   *)
(* after the action committed its own writes to user_businesses,           *)
(* portfolio and market.                                                    *)

FailInputs ==
    { Button("biz_buy", "coffee", 0), Button("biz_up", "coffee", 0),
      Button("crypto_buy_do", "USD", 500), Button("crypto_sell_do", "USD", 10),
      Button("sleep", "", 0) }

\* on_btn handles rq and save_user raises
SaveFails ==
    \E d \in DtSet, rq \in FailInputs :
        /\ steps < MaxSteps
        /\ steps' = steps + 1
        /\ now' = now + d
        /\ dt' = d
        /\ data' = [cmd |-> rq.cmd, arg |-> rq.arg, amt |-> rq.amt]
        /\ \E r \in { ApplyBtn(Db, rq, now + d) } :
               /\ user_businesses' = r.biz
               /\ portfolio' = r.port
               /\ market' = r.mkt
               /\ last_update' = r.upd
               /\ updLog' = r.walks
               /\ mid' = r.mid
        /\ reply' = "store_failure"
        /\ UNCHANGED <<users, paidLog, paidTwice, pc, loc, base, running, applied>>

NextFail == Next \/ SaveFails

SpecFail == Init /\ [][NextFail]_vars

\* C3: when save_user fails, nothing of the action is stored: the business
\* rows and the holdings are those of before the update.
C3_AllOrNothing ==
    [][ (steps' # steps /\ reply' = "store_failure") =>
          /\ user_businesses' = user_businesses
          /\ portfolio' = portfolio ]_vars

----------------------------------------------------------------------------
(* The price table under updates in flight at the same time.  Each update  *)
(* is a press of "crypto_market": market_update_if_needed() reads          *)
(* last_update, compares it with now_ts(), and if stale reads the prices,  *)
(* walks them and writes them back with a second now_ts(); then get_price  *)
(* reads each price.  The clock may advance between any two steps.         *)

MaxClock == 900

TickInputs == { 299, 300 }

InitMarket ==
    /\ now = 0
    /\ users = FreshDb.users
    /\ user_businesses = FreshDb.biz
    /\ portfolio = FreshDb.port
    /\ market = FreshDb.mkt
    /\ last_update = FreshDb.upd
    /\ applied = {}
    /\ paidLog = {}
    /\ paidTwice = FALSE
    /\ updLog = << >>
    /\ reply = "none"
    /\ data = [cmd |-> "none", arg |-> "", amt |-> 0]
    /\ dt = 0
    /\ mid = NoRow
    /\ steps = 0
    /\ pc = [u \in Updates |-> "new"]
    /\ loc = [u \in Updates |-> NoRow]
    /\ base = [u \in Updates |-> [rq |-> NoDraw, row |-> NoRow, overlap |-> FALSE]]
    /\ running = Idle

MarketFrame ==
    UNCHANGED <<paidLog, paidTwice, reply, data, dt, mid, steps, user_businesses,
                portfolio>>

Tick ==
    \E d \in TickInputs :
        /\ now + d <= MaxClock
        /\ now' = now + d
        /\ UNCHANGED <<users, market, last_update, applied, updLog, pc, loc, base,
                       running>>
        /\ MarketFrame

\* on_btn("crypto_market") from its entry to await q.answer()
MBegin(u) ==
    /\ pc[u] = "new" /\ MayRun(u)
    /\ \E dr \in DriftInputs :
          base' = [base EXCEPT ![u] = [rq |-> Rq("crypto_market", "", 0, 0, 1, dr),
                                       row |-> NoRow, overlap |-> Others(u)]]
    /\ Goto(u, "answering")
    /\ UNCHANGED <<now, users, market, last_update, applied, updLog, loc>>
    /\ MarketFrame

\* get_user and apply_decay
MLoad(u) ==
    /\ pc[u] = "answering" /\ MayRun(u)
    /\ loc' = [loc EXCEPT ![u] = apply_decay(LoadUser(users, now), now)]
    /\ Goto(u, "loaded")
    /\ UNCHANGED <<now, users, market, last_update, applied, updLog, base>>
    /\ MarketFrame

\* the death check of on_btn, then lines 249-252: read last_update, compare
MCheck(u) ==
    /\ pc[u] = "loaded" /\ MayRun(u)
    /\ Goto(u, IF loc[u].health <= 0 THEN "acted"
               ELSE IF MarketFresh(now, last_update) THEN "pricing"
               ELSE "walking")
    /\ UNCHANGED <<now, users, market, last_update, applied, updLog, loc, base>>
    /\ MarketFrame

\* lines 254-272: read the prices, walk them, write them and last_update
MWalk(u) ==
    /\ pc[u] = "walking" /\ MayRun(u)
    /\ market' = WalkFrom(1, market, base[u].rq.dr)
    /\ last_update' = now
    /\ updLog' = Append(updLog, now)
    /\ Goto(u, "pricing")
    /\ UNCHANGED <<now, users, applied, loc, base>>
    /\ MarketFrame

\* crypto_market_text: get_price of every asset
MPrices(u) ==
    /\ pc[u] = "pricing" /\ MayRun(u)
    /\ applied' = applied \cup
          { [walks |-> Len(updLog),
             prices |-> [a \in AssetSyms |-> get_price(market, a)]] }
    /\ Goto(u, "acted")
    /\ UNCHANGED <<now, users, market, last_update, updLog, loc, base>>
    /\ MarketFrame

\* save_user, up to await q.edit_message_text()
MSave(u) ==
    /\ pc[u] = "acted" /\ MayRun(u)
    /\ users' = loc[u]
    /\ Goto(u, "replying")
    /\ UNCHANGED <<now, market, last_update, applied, updLog, loc, base>>
    /\ MarketFrame

\* the reply is sent; the next press of this player may arrive
MReply(u) ==
    /\ pc[u] = "replying" /\ MayRun(u)
    /\ pc' = [pc EXCEPT ![u] = "new"]
    /\ running' = Idle
    /\ UNCHANGED <<now, users, market, last_update, applied, updLog, loc, base>>
    /\ MarketFrame

NextMarket ==
    \/ Tick
    \/ \E u \in Updates :
          \/ MBegin(u)
          \/ MLoad(u)
          \/ MCheck(u)
          \/ MWalk(u)
          \/ MPrices(u)
          \/ MSave(u)
          \/ MReply(u)

SpecMarket == InitMarket /\ [][NextMarket]_vars

\* C8: two recomputations of the price table are at least 300 seconds
\* apart, and the price reads made after the same number of recomputations
\* return the same prices.
C8_OncePerInterval ==
    /\ \A i \in 1..Len(updLog) :
          /\ i > 1 => updLog[i] - updLog[i - 1] >= 300
          /\ updLog[i] >= 300
    /\ \A r1 \in applied, r2 \in applied :
          r1.walks = r2.walks => r1.prices = r2.prices

\* the table was recomputed, reused by an update 299 seconds later while
\* another update was in flight, and recomputed again
C8_Witness ==
    /\ Len(updLog) = 2
    /\ \E r \in applied : r.walks = 1
    /\ \E u \in Updates : base[u].overlap /\ pc[u] = "acted"
    /\ now - last_update = 299

----------------------------------------------------------------------------
(* Work, jobs and levels                                                   *)

\* st is the record of a player at first contact
IsFresh(st) ==
    /\ st.money = START_MONEY /\ st.health = 90 /\ st.hunger = 70
    /\ st.energy = 80 /\ st.day = 1 /\ st.job = Unemployed
    /\ st.level = 1 /\ st.xp = 0

\* an update with this callback data was handled by a living player
Did(cmd) == data'.cmd = cmd /\ steps' # steps /\ reply' # "dead"

\* C11: "work" pressed by a fresh player (energy 80, hunger 70, no job) is
\* never rejected: money grows, energy and hunger fall by at least the
\* job's costs.
C11_FreshWorkSucceeds ==
    [][ (Did("work_do") /\ IsFresh(mid')) =>
          /\ reply' = "worked"
          /\ users'.money > mid'.money
          /\ \E i \in 1..Len(JOBS) :
                /\ users'.energy <= mid'.energy - JOBS[i].e_cost
                /\ users'.hunger <= mid'.hunger - JOBS[i].h_cost ]_vars

\* C12: "work" pressed with energy < 20 or hunger < 15 is rejected and the
\* record stays as it was after the decay: money, energy, hunger, XP, level
\* and job unchanged.
C12_TiredWorkRejected ==
    [][ (Did("work_do") /\ (mid'.energy < 20 \/ mid'.hunger < 15)) =>
          /\ reply' \in { "too_tired", "no_job" }
          /\ users' = mid' ]_vars

\* a player with a job and energy below 20 was refused a shift
C12_Witness ==
    /\ data.cmd = "work_do" /\ reply = "too_tired"
    /\ users.job \in JobNames /\ users.energy < 20 /\ users.hunger >= 15
    /\ users = mid

\* the callback data d names a job, a business or an asset that is in no table
Unknown(d) ==
    \/ d.cmd = "job_set" /\ d.arg \notin JobNames
    \/ d.cmd \in { "biz_buy", "biz_up" } /\ d.arg \notin BizTableIds
    \/ d.cmd \in { "crypto_buy_do", "crypto_sell_do" } /\ d.arg \notin AssetSyms

\* C13: a request that names an unknown job, business or asset changes
\* neither the record nor the businesses nor the portfolio.
C13_UnknownRejected ==
    [][ (steps' # steps /\ reply' # "dead" /\ Unknown(data')) =>
          /\ users' = mid'
          /\ user_businesses' = user_businesses
          /\ portfolio' = portfolio ]_vars

\* C14: after /start the player is in the state of a first contact: the
\* default record, no business owned, no asset held.
C14_ResetFresh ==
    data.cmd = "start" =>
        /\ IsFresh(users)
        /\ users.inventory = EmptyInventory
        /\ Owned(user_businesses) = {}
        /\ \A a \in DOMAIN portfolio : portfolio[a] = 0

\* C15: a sleep of a living player adds exactly 1 to day and is answered as
\* a sleep; every other update except /start leaves day as stored.
C15_DayOnlyBySleep ==
    [][ (steps' # steps /\ data'.cmd # "start") =>
          /\ mid'.day = LoadUser(users, now').day
          /\ users'.day = mid'.day + (IF Did("sleep") THEN 1 ELSE 0)
          /\ Did("sleep") => reply' \in { "slept", "slept_income" } ]_vars

\* a second night after twenty hours away: day 3, following an update that
\* was no sleep and left day at 2
C15_Witness ==
    /\ steps = 2 /\ data.cmd = "sleep" /\ reply = "slept_income"
    /\ dt = 72000 /\ users.day = 3 /\ mid.day = 2

----------------------------------------------------------------------------
(* Assets                                                                  *)

\* units = rub_amount / price, the holding a purchase adds
Units(mkt, sym, rub_amount) ==
    MulDiv(rub_amount * PriceScale, AmtScale(sym), get_price(mkt, sym))

\* the last update bought data.arg for data.amt and the player held none of
\* it before
BoughtFromNone ==
    /\ data.cmd = "crypto_buy_do" /\ reply = "bought"
    /\ Holding(portfolio, data.arg) = Units(market, data.arg, data.amt)

----------------------------------------------------------------------------
(* Jobs and levels                                                         *)

\* the row of JOBS with this name
JobOf(name) == JOBS[CHOOSE i \in 1..Len(JOBS) : JOBS[i].name = name]

\* st's job is in JOBS and st's level reaches its min_lvl
Unlocked(st) == st.job \in JobNames /\ st.level >= JobOf(st.job).min_lvl

\* C17: the stored job is the unemployed one or a job of JOBS whose minimum
\* level the player has reached.
C17_JobGated ==
    users # NoRow => (users.job = Unemployed \/ Unlocked(users))

\* C18: work credits money or XP only to a player whose job is in JOBS and
\* whose level reaches that job's minimum; for any other player money, XP,
\* energy and hunger stay as they were.
C18_WorkNeedsUnlock ==
    [][ Did("work_do") =>
          /\ (users'.money # mid'.money \/ users'.xp # mid'.xp
                \/ users'.level # mid'.level) => Unlocked(mid')
          /\ ~Unlocked(mid') =>
                /\ users'.money = mid'.money /\ users'.xp = mid'.xp
                /\ users'.energy = mid'.energy /\ users'.hunger = mid'.hunger ]_vars

\* a rested level-1 player holding a level-2 job was refused a shift
C18_Witness ==
    /\ data.cmd = "work_do" /\ reply = "job_locked"
    /\ users.job \in JobNames /\ users.level < JobOf(users.job).min_lvl
    /\ users.energy >= 20 /\ users.hunger >= 15

\* the XP thresholds of the levels a..b-1, summed
RECURSIVE Thresholds(_, _)
Thresholds(a, b) == IF a >= b THEN 0 ELSE (60 + 45 * a) + Thresholds(a + 1, b)

\* a work step of a player with a job: XP gained is XP kept plus thresholds
\* paid; no step but /start lowers the level
C19_WorkRule ==
    /\ (Did("work_do") /\ reply' = "worked") =>
          JobOf(mid'.job).xp_gain =
             Thresholds(mid'.level, users'.level) + users'.xp - mid'.xp
    /\ (steps' # steps /\ data'.cmd # "start") =>
          users'.level >= LoadUser(users, now').level

\* C19: always 0 <= XP < 60 + 45 * level; a shift that gains g XP changes
\* level and XP so that g is the change of XP plus the thresholds of the
\* levels passed; the level falls only by /start.
C19_LevelUp ==
    /\ [](users # NoRow => (0 <= users.xp /\ users.xp < 60 + 45 * users.level))
    /\ [][C19_WorkRule]_vars

\* a shift took a player from level 1 to level 2
C19_Witness ==
    /\ data.cmd = "work_do" /\ reply = "worked"
    /\ mid.level = 1 /\ users.level = 2
    /\ users.xp = mid.xp + 14 - 105

----------------------------------------------------------------------------
(* Business upgrades                                                       *)

\* x * 31/20 for x = [int |-> i, rem |-> r] standing for i + r / 20^k
Grow(x, k) ==
    LET a   == (31 * x.int) \div 20
        b   == (31 * x.int) % 20
        num == b * Pow(20, k) + 31 * x.rem
    IN  [int |-> a + num \div Pow(20, k + 1), rem |-> num % Pow(20, k + 1)]

\* base * 1.55^k as integer part and remainder over 20^k
RECURSIVE Grown(_, _)
Grown(base_cost, k) ==
    IF k = 0 THEN [int |-> base_cost, rem |-> 0]
    ELSE Grow(Grown(base_cost, k - 1), k - 1)

\* floor(base_upgrade_cost * 1.55^current_level)
UpgradeFee(biz_id, current_level) == Grown(biz_info(biz_id).upc, current_level).int

----------------------------------------------------------------------------
(* Business ownership                                                      *)

\* a purchase of an owned or unaffordable business changes nothing; any
\* other debits the price and adds the one row of the business, at level 1
C21_BuyRule ==
    Did("biz_buy") =>
        LET b == data'.arg
        IN  IF user_businesses[b] # NoRow \/ mid'.money < biz_info(b).buy
              THEN /\ users' = mid'
                   /\ user_businesses' = user_businesses
              ELSE /\ users'.money = mid'.money - biz_info(b).buy
                   /\ user_businesses'[b].biz_level = 1
                   /\ Owned(user_businesses') = Owned(user_businesses) \cup {b}
                   /\ Cardinality(Owned(user_businesses')) =
                        Cardinality(Owned(user_businesses)) + 1
                   /\ \A c \in Owned(user_businesses) :
                        user_businesses'[c] = user_businesses[c]

\* C21: a purchase is refused without change when the business is owned or
\* the money is short, and otherwise debits the price and creates one row
\* at level 1; every row of user_businesses has a level >= 1.
C21_OwnedOnce ==
    /\ [](\A b \in Owned(user_businesses) : user_businesses[b].biz_level >= 1)
    /\ [][C21_BuyRule]_vars

\* the owner of the coffee shop, with money for a second one, was refused
C21_Witness ==
    /\ data = [cmd |-> "biz_buy", arg |-> "coffee", amt |-> 0]
    /\ reply = "biz_owned"
    /\ users.money >= biz_info("coffee").buy
    /\ user_businesses["coffee"].biz_level >= 1

----------------------------------------------------------------------------
(* The stable asset                                                        *)

\* the prices p have USDT within 0.4% of USD, or at its floor of 1.0, and
\* RUB at 1
Anchored(p) ==
    /\ p["RUB"] = PriceScale
    /\ \/ p["USDT"] = PriceScale
       \/ /\ 1000 * (p["USDT"] - p["USD"]) <= CRYPTO_VOL["USDT"] * p["USD"]
          /\ 1000 * (p["USD"] - p["USDT"]) <= CRYPTO_VOL["USDT"] * p["USD"]

\* C22: after every recomputation of the table USDT is within 0.4% of the
\* USD price of that recomputation, wherever USDT stood before, and RUB is 1.
C22_StableTracksUsd ==
    [][ updLog' # updLog => Anchored(market') ]_vars

\* two recomputations with USD drawn up and USDT drawn down: USDT stands
\* above its seed price, below USD
C22_Witness ==
    /\ Len(updLog) = 2
    /\ market["USD"] > SeedMarket["USD"] + 2 * MulDiv(SeedMarket["USD"], 4, 1000)
    /\ market["USDT"] < market["USD"]
    /\ market["USDT"] > SeedMarket["USDT"]

----------------------------------------------------------------------------
(* The decay formula                                                       *)

\* floor(rate * h) for h hours given in seconds
Floor(rate, seconds) == (rate * seconds) \div 3600

\* C23: a decay over h >= 0.2 hours takes floor(6h) from hunger and
\* floor(4h) from energy, each stopping at 0, and from health floor(3h) if
\* the new hunger is <= 10 plus floor(2h) if the new energy is <= 10,
\* stopping at 0; with both above 10 health stays.
C23_DecayFormula ==
    [][ (steps' # steps /\ now' - users.last_seen >= 720) =>
          LET s  == now' - users.last_seen
              hu == Max(0, users.hunger - Floor(6, s))
              en == Max(0, users.energy - Floor(4, s))
              hp == (IF hu <= 10 THEN Floor(3, s) ELSE 0)
                      + (IF en <= 10 THEN Floor(2, s) ELSE 0)
          IN  /\ mid'.hunger = hu
              /\ mid'.energy = en
              /\ mid'.health = Max(0, users.health - hp)
              /\ (hu > 10 /\ en > 10) => mid'.health = users.health ]_vars

\* an hour away took hunger from 16 to 10 and with it 3 of health, energy
\* staying above 10
C23_Witness ==
    /\ steps = 1 /\ dt = 3600
    /\ users.hunger = 10 /\ users.energy = 46 /\ users.health = 47

----------------------------------------------------------------------------
(* A player who keeps pressing buttons, each press less than 12 minutes    *)
(* after the one before.  base adds up what apply_decay took from the      *)
(* vitals over all presses.                                                *)

MaxPolls == 4

PollDts == { 360, 719 }

PollInputs ==
    { Button("status", "", 0), Button("eat_cafe", "", 0), Button("sleep", "", 0) }

NothingLost == [hunger |-> 0, energy |-> 0, health |-> 0]

InitPoll ==
    /\ now = 0
    /\ \E db \in Seeds :
          /\ users = db.users
          /\ user_businesses = db.biz
          /\ portfolio = db.port
          /\ market = db.mkt
          /\ last_update = db.upd
          /\ paidLog = db.log
          /\ paidTwice = db.twice
          /\ updLog = db.walks
    /\ reply = "none"
    /\ data = [cmd |-> "none", arg |-> "", amt |-> 0]
    /\ dt = 0
    /\ mid = NoRow
    /\ steps = 0
    /\ pc = NoCoroutines
    /\ loc = NoCoroutines
    /\ base = NothingLost
    /\ running = Idle
    /\ applied = NoRow

\* on_btn handles rq, d seconds after the previous press
PollBtn ==
    \E d \in PollDts, rq \in PollInputs :
        /\ steps < MaxPolls
        /\ steps' = steps + 1
        /\ now' = now + d
        /\ dt' = d
        /\ data' = [cmd |-> rq.cmd, arg |-> rq.arg, amt |-> rq.amt]
        /\ \E r \in { ApplyBtn(Db, rq, now + d) } :
               /\ SetDb(r)
               /\ reply' = r.msg
               /\ mid' = r.mid
               /\ \E st \in { LoadUser(users, now + d) } :
                     base' = [hunger |-> base.hunger + st.hunger - r.mid.hunger,
                              energy |-> base.energy + st.energy - r.mid.energy,
                              health |-> base.health + st.health - r.mid.health]
        /\ UNCHANGED <<pc, loc, running, applied>>

NextPoll == PollBtn

SpecPoll == InitPoll /\ [][NextPoll]_vars

\* C24: while every press comes less than 720 seconds after the one before,
\* decay takes nothing from hunger, energy or health, whatever the time in
\* total.
C24_PollingStopsDecay == base = NothingLost

\* after more than half an hour of presses a player still has hunger that
\* one decay over that time would have lowered
C24_Witness ==
    /\ now > 2000 /\ data.cmd = "status"
    /\ users.hunger > 0 /\ users.health > 0
    /\ users.last_seen = now
    /\ base = NothingLost

----------------------------------------------------------------------------
(* The inventory                                                           *)

\* C25: the stored inventory holds 0 food, 0 medkits and 0 tickets in every
\* state, and every meal from the inventory is refused with the record as
\* it was.
C25_InventoryEmpty ==
    /\ [](users # NoRow => users.inventory = EmptyInventory)
    /\ [][ Did("eat_inv") => (reply' = "no_food" /\ users' = mid') ]_vars

\* a hungry player, twenty hours after the last press, was refused a meal
\* from the inventory
C25_Witness ==
    /\ data.cmd = "eat_inv" /\ reply = "no_food"
    /\ dt = 72000 /\ users.hunger < 15 /\ users.health > 0
    /\ users.inventory.food = 0

====
